---- MODULE Spec2Model ----
(***************************************************************************)
(* Model of the users-api service of measuring-go-applications/main.go:    *)
(* the two HTTP handlers (GET /user, POST /user/auth), the user lookup     *)
(* getUserFromDB, and the two process-wide instruments hashLatency and     *)
(* hashError.  net/http serves every connection on its own goroutine, one  *)
(* request after the other; the steps of a handler that touch shared state *)
(* (the store, the histogram, the counter) are separate actions, so the    *)
(* requests of different connections interleave.                           *)
(***************************************************************************)
EXTENDS Integers, Sequences, FiniteSets, Bags, TLC

\* Number of requests the server accepts in a run.
MaxRequests == 3

\* The client connections, each served by one goroutine of net/http.
Conns == {"c1", "c2"}

----------------------------------------------------------------------------
(* Bytes and strings.  A Go string or []byte is a sequence; characters of  *)
(* identifiers and of the hex column are one-character strings, bytes are  *)
(* integers 0..255.                                                        *)

HexDigits == <<"0","1","2","3","4","5","6","7","8","9","a","b","c","d","e","f">>

DecDigits == {"0","1","2","3","4","5","6","7","8","9"}

\* fromHexChar of encoding/hex: the value of one hex digit (either case), -1
\* when the character is no hex digit.
FromHexChar(c) ==
  CASE c = "0" -> 0 [] c = "1" -> 1 [] c = "2" -> 2 [] c = "3" -> 3
    [] c = "4" -> 4 [] c = "5" -> 5 [] c = "6" -> 6 [] c = "7" -> 7
    [] c = "8" -> 8 [] c = "9" -> 9
    [] c \in {"a", "A"} -> 10 [] c \in {"b", "B"} -> 11
    [] c \in {"c", "C"} -> 12 [] c \in {"d", "D"} -> 13
    [] c \in {"e", "E"} -> 14 [] c \in {"f", "F"} -> 15
    [] OTHER -> -1

\* hex.EncodeToString, used to write the stored password column.
HexEncode(bytes) ==
  [i \in 1..(2 * Len(bytes)) |->
     IF i % 2 = 1 THEN HexDigits[(bytes[(i + 1) \div 2] \div 16) + 1]
                  ELSE HexDigits[(bytes[i \div 2] % 16) + 1]]

\* hex.DecodeString (line 244): an odd length or a non-hex character is an
\* error; otherwise each pair of digits is one byte.
HexDecodeString(s) ==
  IF Len(s) % 2 # 0 \/ \E i \in 1..Len(s) : FromHexChar(s[i]) < 0
    THEN [bytes |-> <<>>, err |-> "hex.InvalidByteError"]
    ELSE [bytes |-> [i \in 1..(Len(s) \div 2) |->
                       16 * FromHexChar(s[2 * i - 1]) + FromHexChar(s[2 * i])],
          err |-> "nil"]

RECURSIVE DigitsValue(_)
DigitsValue(s) ==
  IF s = <<>> THEN 0
  ELSE 10 * DigitsValue(SubSeq(s, 1, Len(s) - 1))
       + (CHOOSE d \in 0..9 : HexDigits[d + 1] = s[Len(s)])

\* strconv.Atoi (line 224): an optional sign followed by at least one decimal
\* digit and nothing else; anything else is a syntax error.
Atoi(s) ==
  LET signed == s # <<>> /\ s[1] \in {"+", "-"}
      digits == IF signed THEN Tail(s) ELSE s
  IN IF digits = <<>> \/ \E i \in 1..Len(digits) : digits[i] \notin DecDigits
       THEN [val |-> 0, err |-> "strconv.ErrSyntax"]
       ELSE [val |-> IF signed /\ s[1] = "-" THEN 0 - DigitsValue(digits)
                     ELSE DigitsValue(digits),
             err |-> "nil"]

----------------------------------------------------------------------------
(* bcrypt.CompareHashAndPassword (line 186).  The parsing of the stored    *)
(* hash follows golang.org/x/crypto/bcrypt (newFromHash, decodeVersion,    *)
(* decodeCost); the Blowfish key schedule itself is replaced by Digest, a  *)
(* deterministic function of password, cost and salt.                      *)

minHashSize == 59

encodedSaltSize == 22

encodedHashSize == 31

majorVersion == 50

minCost == 4

maxCost == 31

\* The byte '$'.
Dollar == 36

RECURSIVE SumBytes(_)
SumBytes(s) == IF s = <<>> THEN 0 ELSE Head(s) + SumBytes(Tail(s))

\* Stand-in for the bcrypt digest: 31 bytes determined by password, cost, salt.
Digest(password, cost, salt) ==
  LET base == SumBytes(password) + 7 * cost + SumBytes(salt)
  IN [i \in 1..encodedHashSize |-> 46 + ((base + i) % 64)]

\* The bcrypt base64 alphabet "./A-Za-z0-9".
SaltAlphabet == {46, 47} \cup (48..57) \cup (65..90) \cup (97..122)

\* string(sbytes[0:2]) for the characters strconv.Atoi can accept.
ByteToChar(b) ==
  IF b \in 48..57 THEN HexDigits[b - 47]
  ELSE IF b = 43 THEN "+"
  ELSE IF b = 45 THEN "-"
  ELSE "?"

\* The error of bcrypt.CompareHashAndPassword(hashedPassword, password).
CompareHashAndPassword(hashedPassword, password) ==
  IF Len(hashedPassword) < minHashSize THEN "bcrypt.ErrHashTooShort"
  ELSE IF hashedPassword[1] # Dollar THEN "bcrypt.InvalidHashPrefixError"
  ELSE IF hashedPassword[2] > majorVersion THEN "bcrypt.HashVersionTooNewError"
  ELSE
    LET n    == IF hashedPassword[3] # Dollar THEN 4 ELSE 3
        cost == Atoi(<<ByteToChar(hashedPassword[n + 1]),
                       ByteToChar(hashedPassword[n + 2])>>)
        rest == SubSeq(hashedPassword, n + 4, Len(hashedPassword))
        salt == SubSeq(rest, 1, encodedSaltSize)
        hash == SubSeq(rest, encodedSaltSize + 1, Len(rest))
    IN IF cost.err # "nil" THEN cost.err
       ELSE IF cost.val < minCost \/ cost.val > maxCost
         THEN "bcrypt.InvalidCostError"
       ELSE IF \E i \in 1..Len(salt) : salt[i] \notin SaltAlphabet
         THEN "base64.CorruptInputError"
       ELSE IF hash = Digest(password, cost.val, salt) THEN "nil"
       ELSE "bcrypt.ErrMismatchedHashAndPassword"

\* bcrypt.GenerateFromPassword at cost 10 with a fixed salt: how the stored
\* hashes of the users table were produced ("$2a$10$" salt digest).
SampleSalt == [i \in 1..encodedSaltSize |-> 65 + (i % 26)]

GenerateFromPassword(password) ==
  <<Dollar, 50, 97, Dollar, 49, 48, Dollar>> \o SampleSalt
    \o Digest(password, 10, SampleSalt)

----------------------------------------------------------------------------
(* The request inputs and the users table.                                 *)

\* "secret" and "wrong" as bytes.
PwSecret == <<115, 101, 99, 114, 101, 116>>

PwWrong == <<119, 114, 111, 110, 103>>

Passwords == {PwSecret, PwWrong}

\* Values of the id form field / query parameter: missing, the four stored
\* users, a key absent from the store, and one that does not parse.
UserIDs == {<<>>, <<"1">>, <<"2">>, <<"3">>, <<"4">>, <<"9">>, <<"x">>}

\* A well-formed hash of "secret" with its first byte replaced by 'x'.
BadPrefixHash == [GenerateFromPassword(PwSecret) EXCEPT ![1] = 120]

\* Rows of the users table (id, name, email, password as sql.NullString):
\* 1 has the hash of "secret", 2 has a NULL password, 3 has a hash with a wrong
\* prefix, 4 has a column that is not hex.
Users ==
  (1 :> [ID |-> 1, Name |-> "alice", Email |-> "alice@example.com",
         password |-> [Valid |-> TRUE,
                       String |-> HexEncode(GenerateFromPassword(PwSecret))]])
  @@ (2 :> [ID |-> 2, Name |-> "bob", Email |-> "bob@example.com",
            password |-> [Valid |-> FALSE, String |-> <<>>]])
  @@ (3 :> [ID |-> 3, Name |-> "carol", Email |-> "carol@example.com",
            password |-> [Valid |-> TRUE, String |-> HexEncode(BadPrefixHash)]])
  @@ (4 :> [ID |-> 4, Name |-> "dave", Email |-> "dave@example.com",
            password |-> [Valid |-> TRUE, String |-> <<"z", "z">>]])

\* The zero value of struct User (lines 37-42).
User == [ID |-> 0, Name |-> "", Email |-> "", password |-> <<>>]

----------------------------------------------------------------------------
(* State.                                                                  *)

VARIABLES
  req,          \* per connection: the handler's position and locals for the
                \* request it is serving (or served last)
  hashLatency,  \* the histogram: a bag of the attribute sets recorded
  hashError,    \* the counter
  accepted,     \* number of requests accepted so far
  comparisons,  \* number of hash comparisons completed so far
  matched,      \* number of them that returned nil
  tooShort      \* number of them that returned bcrypt.ErrHashTooShort

vars == <<req, hashLatency, hashError, accepted, comparisons, matched, tooShort>>

\* A connection on which no request has arrived yet.
NoRequest ==
  [pc |-> "idle", handler |-> "none", id |-> <<>>, password |-> <<>>,
   cancelAt |-> "none", user |-> User, lookupErr |-> "nil", cmpErr |-> "nil",
   queries |-> 0, recorded |-> <<>>, observed |-> <<>>, counted |-> 0,
   resp |-> <<>>]

Init ==
  /\ req = [c \in Conns |-> NoRequest]
  /\ hashLatency = EmptyBag
  /\ hashError = 0
  /\ accepted = 0
  /\ comparisons = 0
  /\ matched = 0
  /\ tooShort = 0

\* ctx.Err() # nil: the caller has disconnected or cancelled.
CtxDone(c) == req[c].cancelAt # "none"

\* http.Error(w, msg, code): a plain-text body and the status code.
HttpError(msg, code) == [status |-> code, body |-> [text |-> msg]]

\* json.NewEncoder(w).Encode(v) on a fresh ResponseWriter: status 200.
JSONResponse(v) == [status |-> 200, body |-> v]

\* Mutant of EncodeUser: the password field exported (Password []byte).
EncodeUserAll(user) ==
  [id |-> user.ID, name |-> user.Name, email |-> user.Email,
   password |-> user.password]

\* encoding/json on struct User (lines 37-42): the exported fields under
\* their tags; the unexported field password is skipped.
EncodeUser(user) == [id |-> user.ID, name |-> user.Name, email |-> user.Email]

\* db.QueryRowContext(ctx, "SELECT ... WHERE id = $1", key).Scan(...)
\* (lines 232-234): database/sql returns ctx.Err() for a done context, the
\* driver's error when the store fails, sql.ErrNoRows when no row matches.
QueryRowScan(ctxDone, storeFails, key) ==
  IF ctxDone THEN [row |-> Users[1], err |-> "context.Canceled"]
  ELSE IF storeFails THEN [row |-> Users[1], err |-> "driver.ErrBadConn"]
  ELSE IF key \notin DOMAIN Users THEN [row |-> Users[1], err |-> "sql.ErrNoRows"]
  ELSE [row |-> Users[key], err |-> "nil"]

\* getUserFromDB (lines 223-252).  The result carries, besides (user, err),
\* the number of QueryRowContext calls made and the errors recorded on the
\* request span (span.RecordError, line 238).
getUserFromDB(ctxDone, storeFails, userID) ==
  LET userIDInt == Atoi(userID)
      q         == QueryRowScan(ctxDone, storeFails, userIDInt.val)
      pwHash    == HexDecodeString(q.row.password.String)
  IN IF userIDInt.err # "nil"
       THEN [user |-> User, err |-> userIDInt.err, queries |-> 0,
             recorded |-> <<>>]
     ELSE IF q.err # "nil"
       THEN [user |-> User, err |-> q.err, queries |-> 1,
             recorded |-> <<q.err>>]
     ELSE IF q.row.password.Valid /\ pwHash.err # "nil"
       THEN [user |-> User, err |-> pwHash.err, queries |-> 1,
             recorded |-> <<>>]
     ELSE [user |-> [ID |-> q.row.ID, Name |-> q.row.Name,
                     Email |-> q.row.Email,
                     password |-> IF q.row.password.Valid THEN pwHash.bytes
                                  ELSE <<>>],
           err |-> "nil", queries |-> 1, recorded |-> <<>>]

\* Mutant of LatencyAttributes: the user id added as an attribute.
LatencyAttributesWithUserID(userID, err) ==
  {<<"correct", err = "nil">>, <<"user_id", userID>>}

\* metric.WithAttributes(attribute.Bool("correct", err == nil)) (line 187).
LatencyAttributes(userID, err) == {<<"correct", err = "nil">>}

\* Mutant of Record: nothing is recorded once the context is done.
RecordUnlessDone(histogram, ctxDone, attrs) ==
  IF ctxDone THEN histogram ELSE histogram (+) SetToBag({attrs})

\* Mutant of Record: the observation replaces the aggregate instead of being
\* added to it, so the observations of other requests are lost.
RecordLastWriterWins(histogram, ctxDone, attrs) == SetToBag({attrs})

\* hashLatency.Record(ctx, seconds, attrs) (line 187): one observation; the SDK
\* aggregates it whether or not ctx is done.  The measured value is not kept.
Record(histogram, ctxDone, attrs) == histogram (+) SetToBag({attrs})

\* Lines 189-191: the counter is incremented for bcrypt.ErrHashTooShort only.
CountsAsHashError(err) == err = "bcrypt.ErrHashTooShort"

\* Mutant of SigninResponse: the error test inverted (err == nil).
SigninResponseInverted(err) ==
  IF err = "nil" THEN [status |-> 401, body |-> [text |-> "Not authenticated"]]
  ELSE [status |-> 200, body |-> [Status |-> "OK"]]

\* Mutant of SigninResponse: a malformed stored hash answered differently.
SigninResponseLeaky(err) ==
  IF err = "nil" THEN [status |-> 200, body |-> [Status |-> "OK"]]
  ELSE IF err = "bcrypt.ErrMismatchedHashAndPassword"
    THEN [status |-> 401, body |-> [text |-> "Not authenticated"]]
  ELSE [status |-> 401, body |-> [text |-> "Invalid stored hash"]]

\* Lines 193-198: the response of the sign-in handler after the comparison.
SigninResponse(err) ==
  IF err # "nil" THEN HttpError("Not authenticated", 401)
  ELSE JSONResponse([Status |-> "OK"])

\* Lines 177-180 and 213-216: any lookup error becomes a 500.
LookupErrorResponse(err) == HttpError("Failed to get user", 500)

----------------------------------------------------------------------------
(* Actions.                                                                *)

\* signinHandler, lines 165-173: a POST /user/auth arrives; read the id form
\* field; 400 when it is empty.
SigninStart(c) ==
  /\ req[c].pc \in {"idle", "done"}
  /\ accepted < MaxRequests
  /\ accepted' = accepted + 1
  /\ \E userID \in UserIDs :
       req' = [req EXCEPT ![c] =
         IF userID = <<>>
           THEN [NoRequest EXCEPT !.pc = "done", !.handler = "signin",
                   !.resp = <<HttpError("Missing user ID", 400)>>]
           ELSE [NoRequest EXCEPT !.pc = "lookup", !.handler = "signin",
                   !.id = userID]]
  /\ UNCHANGED <<hashLatency, hashError, comparisons, matched, tooShort>>

\* signinHandler, lines 175-183: the lookup; 500 on any error.
SigninLookup(c) ==
  /\ req[c].pc = "lookup"
  /\ req[c].handler = "signin"
  /\ \E storeFails \in BOOLEAN :
       LET res == getUserFromDB(CtxDone(c), storeFails, req[c].id)
       IN req' = [req EXCEPT ![c] =
            IF res.err # "nil"
              THEN [@ EXCEPT !.pc = "done", !.lookupErr = res.err,
                             !.queries = res.queries,
                             !.recorded = res.recorded,
                             !.resp = <<LookupErrorResponse(res.err)>>]
              ELSE [@ EXCEPT !.pc = "compare", !.user = res.user,
                             !.queries = res.queries,
                             !.recorded = res.recorded]]
  /\ UNCHANGED <<hashLatency, hashError, accepted, comparisons, matched, tooShort>>

\* signinHandler, lines 185-186: the hash comparison of the password form
\* field against the stored hash; it takes no context.
SigninCompare(c) ==
  /\ req[c].pc = "compare"
  /\ \E pw \in Passwords :
       LET err == CompareHashAndPassword(req[c].user.password, pw)
       IN /\ req' = [req EXCEPT ![c] =
               [@ EXCEPT !.pc = "record", !.password = pw, !.cmpErr = err]]
          /\ matched' = matched + (IF err = "nil" THEN 1 ELSE 0)
          /\ tooShort' =
               tooShort + (IF err = "bcrypt.ErrHashTooShort" THEN 1 ELSE 0)
  /\ comparisons' = comparisons + 1
  /\ UNCHANGED <<hashLatency, hashError, accepted>>

\* signinHandler, line 187: the latency observation.
SigninRecord(c) ==
  /\ req[c].pc = "record"
  /\ LET attrs == LatencyAttributes(req[c].id, req[c].cmpErr)
         after == Record(hashLatency, CtxDone(c), attrs)
     IN /\ hashLatency' = after
        /\ req' = [req EXCEPT ![c] =
             [@ EXCEPT !.pc = "finish",
                       !.observed = IF after = hashLatency THEN @
                                    ELSE Append(@, attrs)]]
  /\ UNCHANGED <<hashError, accepted, comparisons, matched, tooShort>>

\* signinHandler, lines 189-199: the error counter and the response.
SigninFinish(c) ==
  /\ req[c].pc = "finish"
  /\ LET n == IF CountsAsHashError(req[c].cmpErr) THEN 1 ELSE 0
     IN /\ hashError' = hashError + n
        /\ req' = [req EXCEPT ![c] =
             [@ EXCEPT !.pc = "done", !.counted = n,
                       !.resp = <<SigninResponse(req[c].cmpErr)>>]]
  /\ UNCHANGED <<hashLatency, accepted, comparisons, matched, tooShort>>

\* getUserHandler, lines 201-209: a GET /user arrives; read the id query
\* parameter; 400 when it is empty.
GetUserStart(c) ==
  /\ req[c].pc \in {"idle", "done"}
  /\ accepted < MaxRequests
  /\ accepted' = accepted + 1
  /\ \E userID \in UserIDs :
       req' = [req EXCEPT ![c] =
         IF userID = <<>>
           THEN [NoRequest EXCEPT !.pc = "done", !.handler = "getUser",
                   !.resp = <<HttpError("Missing user ID", 400)>>]
           ELSE [NoRequest EXCEPT !.pc = "lookup", !.handler = "getUser",
                   !.id = userID]]
  /\ UNCHANGED <<hashLatency, hashError, comparisons, matched, tooShort>>

\* getUserHandler, lines 211-221: the lookup, then 500 or the user as JSON.
GetUserLookup(c) ==
  /\ req[c].pc = "lookup"
  /\ req[c].handler = "getUser"
  /\ \E storeFails \in BOOLEAN :
       LET res == getUserFromDB(CtxDone(c), storeFails, req[c].id)
       IN req' = [req EXCEPT ![c] =
            [@ EXCEPT !.pc = "done", !.lookupErr = res.err,
                      !.user = res.user, !.queries = res.queries,
                      !.recorded = res.recorded,
                      !.resp = IF res.err # "nil"
                                 THEN <<LookupErrorResponse(res.err)>>
                                 ELSE <<JSONResponse(EncodeUser(res.user))>>]]
  /\ UNCHANGED <<hashLatency, hashError, accepted, comparisons, matched, tooShort>>

\* The caller disconnects or cancels: r.Context() is done from here on.
Cancel(c) ==
  /\ req[c].pc \in {"lookup", "compare", "record", "finish"}
  /\ req[c].cancelAt = "none"
  /\ req' = [req EXCEPT ![c] = [@ EXCEPT !.cancelAt = req[c].pc]]
  /\ UNCHANGED <<hashLatency, hashError, accepted, comparisons, matched, tooShort>>

Next ==
  \E c \in Conns :
    \/ SigninStart(c)
    \/ SigninLookup(c)
    \/ SigninCompare(c)
    \/ SigninRecord(c)
    \/ SigninFinish(c)
    \/ GetUserStart(c)
    \/ GetUserLookup(c)
    \/ Cancel(c)

Spec == Init /\ [][Next]_vars

----------------------------------------------------------------------------
(* Properties.                                                             *)

Done(c) == req[c].pc = "done"

Status(c) == req[c].resp[1].status

Body(c) == req[c].resp[1].body

\* The request on c is a sign-in whose lookup returned a user.
SigninLookedUp(c) ==
  /\ req[c].handler = "signin"
  /\ req[c].pc \in {"compare", "record", "finish"}
       \/ (Done(c) /\ req[c].id # <<>> /\ req[c].lookupErr = "nil")

\* The password column a user whose password is pw is stored with.
HashColumnOf == [pw \in Passwords |-> HexEncode(GenerateFromPassword(pw))]

\* The stored password column of the user the id names is the hex encoding of
\* the bcrypt hash of pw.
StoredHashIsOf(userID, pw) ==
  LET key == Atoi(userID)
  IN /\ key.err = "nil"
     /\ key.val \in DOMAIN Users
     /\ Users[key.val].password.Valid
     /\ pw \in Passwords
     /\ Users[key.val].password.String = HashColumnOf[pw]

\* C1: every finished POST /user/auth request has exactly one response, whose
\* status is 400 when the id is missing, 500 when the lookup failed, 401 when
\* the lookup succeeded and the comparison failed, and 200 with {"Status":"OK"}
\* when the lookup succeeded and the submitted password is the one the stored
\* hash was made from; a request still in progress has no response yet.
C1_SigninStatus ==
  \A c \in Conns :
    /\ ~Done(c) => req[c].resp = <<>>
    /\ (Done(c) /\ req[c].handler = "signin") =>
         /\ Len(req[c].resp) = 1
         /\ Status(c) \in {200, 400, 401, 500}
         /\ req[c].id = <<>> => Status(c) = 400
         /\ (req[c].id # <<>> /\ req[c].lookupErr # "nil") => Status(c) = 500
         /\ (SigninLookedUp(c) /\ req[c].cmpErr # "nil") => Status(c) = 401
         /\ (SigninLookedUp(c) /\ StoredHashIsOf(req[c].id, req[c].password))
              => Status(c) = 200
         /\ Status(c) = 200 =>
              /\ Body(c) = [Status |-> "OK"]
              /\ StoredHashIsOf(req[c].id, req[c].password)

\* A sign-in succeeded on one connection and was refused with 401 on another.
C1_Witness ==
  \E c, d \in Conns :
    /\ Done(c) /\ req[c].handler = "signin" /\ Status(c) = 200
    /\ Done(d) /\ req[d].handler = "signin" /\ Status(d) = 401

\* The key the id names, when it parses and its row is in the store.
ParsesAs(userID, key) == Atoi(userID).err = "nil" /\ Atoi(userID).val = key

Parses(userID) == Atoi(userID).err = "nil"

\* C2: a request whose id parses but names no row of the store is reported as
\* not found: the response is 404, not 500, and no error is recorded on the
\* span as for a store failure.
C2_AbsentIsNotFound ==
  \A c \in Conns :
    (Done(c) /\ Parses(req[c].id) /\ Atoi(req[c].id).val \notin DOMAIN Users
       /\ req[c].lookupErr \notin {"context.Canceled", "driver.ErrBadConn"})
      => /\ Status(c) = 404
         /\ req[c].recorded = <<>>

\* C3: a request whose id is present but does not parse as an integer is
\* answered 400 and issues no store query.
C3_UnparseableIs400 ==
  \A c \in Conns :
    (Done(c) /\ req[c].id # <<>> /\ ~Parses(req[c].id))
      => /\ Status(c) = 400
         /\ req[c].queries = 0

\* C4: the histogram holds one observation per comparison that has been
\* recorded; a sign-in request past line 187 has made exactly one observation,
\* whose attribute set is the single pair ("correct", comparison succeeded)
\* and so carries no user id; every other request (400, 500, GET /user) has
\* made none.
C4_OneObservationPerComparison ==
  /\ BagCardinality(hashLatency)
       = comparisons - Cardinality({c \in Conns : req[c].pc = "record"})
  /\ \A a \in BagToSet(hashLatency) :
       /\ Cardinality(a) = 1
       /\ \E b \in BOOLEAN : a = {<<"correct", b>>}
  /\ \A c \in Conns :
       IF SigninLookedUp(c) /\ req[c].pc \in {"finish", "done"}
         THEN req[c].observed = <<{<<"correct", req[c].cmpErr = "nil">>}>>
         ELSE req[c].observed = <<>>

\* Two comparisons were recorded, one that succeeded and one that failed,
\* and a request that ended in 500 recorded none.
C4_Witness ==
  /\ BagToSet(hashLatency) = {{<<"correct", TRUE>>}, {<<"correct", FALSE>>}}
  /\ \E c \in Conns :
       Done(c) /\ req[c].handler = "signin" /\ Status(c) = 500

\* The comparison failed on the structure of the stored hash, not on the
\* password.
MalformedHash(err) ==
  err \notin {"nil", "bcrypt.ErrMismatchedHashAndPassword"}

\* C5: a finished verification against a stored hash has incremented the error
\* counter exactly once when that hash is structurally invalid (wrong length,
\* prefix or cost) and not at all when it matched or plainly mismatched.
C5_CounterCountsMalformed ==
  \A c \in Conns :
    (Done(c) /\ SigninLookedUp(c)
       /\ Users[Atoi(req[c].id).val].password.Valid)
      => req[c].counted = IF MalformedHash(req[c].cmpErr) THEN 1 ELSE 0

\* C6: a sign-in for a user whose password column is NULL is answered 401 and
\* leaves the error counter unchanged.
C6_AbsentHashIsPlainMismatch ==
  \A c \in Conns :
    (Done(c) /\ SigninLookedUp(c)
       /\ ~Users[Atoi(req[c].id).val].password.Valid)
      => /\ Status(c) = 401
         /\ req[c].counted = 0

\* C7: any two finished sign-in requests whose lookup succeeded and whose
\* verification failed have the same response (status and body), whatever the
\* reason of the failure.
C7_FailuresIndistinguishable ==
  \A c, d \in Conns :
    (/\ Done(c) /\ SigninLookedUp(c) /\ req[c].cmpErr # "nil"
     /\ Done(d) /\ SigninLookedUp(d) /\ req[d].cmpErr # "nil")
      => req[c].resp = req[d].resp

\* Two refused sign-ins, one for a wrong password and one for a stored hash
\* that is malformed or absent.
C7_Witness ==
  \E c, d \in Conns :
    /\ Done(c) /\ SigninLookedUp(c)
    /\ req[c].cmpErr = "bcrypt.ErrMismatchedHashAndPassword"
    /\ Done(d) /\ SigninLookedUp(d)
    /\ req[d].cmpErr \in {"bcrypt.ErrHashTooShort",
                          "bcrypt.InvalidHashPrefixError"}

\* C8: a finished GET /user is 400 when the id is missing, 500 when the lookup
\* failed, and otherwise 200 with exactly the fields id, name, email, id being
\* the queried one; no response of either handler has a password field.
C8_GetUserResponse ==
  \A c \in Conns :
    /\ (Done(c) /\ req[c].handler = "getUser") =>
         /\ Len(req[c].resp) = 1
         /\ req[c].id = <<>> => Status(c) = 400
         /\ (req[c].id # <<>> /\ req[c].lookupErr # "nil") => Status(c) = 500
         /\ (req[c].id # <<>> /\ req[c].lookupErr = "nil") =>
              /\ Status(c) = 200
              /\ DOMAIN Body(c) = {"id", "name", "email"}
              /\ ParsesAs(req[c].id, Body(c).id)
              /\ Body(c).name = Users[Body(c).id].Name
              /\ Body(c).email = Users[Body(c).id].Email
    /\ \A i \in 1..Len(req[c].resp) :
         DOMAIN req[c].resp[i].body \in
           {{"text"}, {"Status"}, {"id", "name", "email"}}

\* A GET /user for a stored user that has a password hash was answered 200.
C8_Witness ==
  \E c \in Conns :
    /\ Done(c) /\ req[c].handler = "getUser" /\ Status(c) = 200
    /\ req[c].user.password # <<>>

\* C9: a lookup that failed on the store (a failed query, or a password column
\* that is not hex) is answered 500 and has recorded its error on the span.
C9_StoreErrorRecorded ==
  \A c \in Conns :
    (Done(c) /\ req[c].lookupErr \in
       {"driver.ErrBadConn", "context.Canceled", "hex.InvalidByteError"})
      => /\ Status(c) = 500
         /\ req[c].recorded = <<req[c].lookupErr>>

\* The user the id names is stored with a password column the lookup can
\* return (NULL or valid hex).
LookupCanSucceed(userID) ==
  /\ Parses(userID)
  /\ Atoi(userID).val \in DOMAIN Users
  /\ Users[Atoi(userID).val].password.Valid
       => HexDecodeString(Users[Atoi(userID).val].password.String).err = "nil"

\* C10 as stated: a finished sign-in for an existing user that was cancelled
\* at any point before the comparison completed has run the comparison and
\* made exactly one observation.
C10_CancelBeforeCompareStillObserved ==
  \A c \in Conns :
    (Done(c) /\ req[c].handler = "signin" /\ LookupCanSucceed(req[c].id)
       /\ req[c].cancelAt \in {"lookup", "compare"})
      => Len(req[c].observed) = 1

\* C10 as amended: a sign-in cancelled after its lookup returned a user and
\* before the comparison completed is not cut short by the cancellation: past
\* line 186 its error is the result of the full comparison of the submitted
\* password with the stored hash, and past line 187 exactly one observation
\* has been made.
C10_CancelAfterLookupStillObserved ==
  \A c \in Conns :
    (req[c].handler = "signin" /\ req[c].cancelAt = "compare") =>
      /\ req[c].pc \in {"record", "finish", "done"} =>
           req[c].cmpErr = CompareHashAndPassword(req[c].user.password,
                                                  req[c].password)
      /\ req[c].pc \in {"finish", "done"} =>
           /\ req[c].lookupErr = "nil"
           /\ Len(req[c].observed) = 1

\* A sign-in cancelled while it was about to compare has finished with its
\* observation in the histogram.
C10_Witness ==
  \E c \in Conns :
    /\ Done(c) /\ req[c].cancelAt = "compare"
    /\ Len(req[c].observed) = 1
    /\ BagCardinality(hashLatency) >= 1

\* Number of requests in flight at pc whose comparison returned an error
\* satisfying P.
InFlight(pcs, P(_)) ==
  Cardinality({c \in Conns : req[c].pc \in pcs /\ P(req[c].cmpErr)})

\* The response signinHandler gives the request r when it runs alone: lines
\* 165-199 executed in order on r's own inputs (id, password, whether its
\* context was done at the query, whether the store failed for it).
AloneResponse(r) ==
  IF r.id = <<>> THEN HttpError("Missing user ID", 400)
  ELSE
    LET res == getUserFromDB(r.cancelAt = "lookup",
                             r.lookupErr = "driver.ErrBadConn", r.id)
    IN IF res.err # "nil" THEN LookupErrorResponse(res.err)
       ELSE SigninResponse(CompareHashAndPassword(res.user.password,
                                                  r.password))

\* C11: whatever the interleaving of the requests of the connections, no
\* observation is lost or corrupted: the histogram holds one observation for
\* every comparison whose request has passed line 187, as many with
\* correct=true as comparisons that returned nil; the error counter equals the
\* number of comparisons that returned ErrHashTooShort and whose request has
\* passed line 191; so when no request is in flight the histogram count is the
\* number of comparisons and the counter the number of error branches taken.
\* Every finished sign-in has the response it gets when handled alone, and no
\* request queries or compares twice.
C11_ConcurrentRequestsIndependent ==
  /\ BagCardinality(hashLatency)
       = comparisons - InFlight({"record"}, LAMBDA e : TRUE)
  /\ CopiesIn({<<"correct", TRUE>>}, hashLatency)
       = matched - InFlight({"record"}, LAMBDA e : e = "nil")
  /\ hashError
       = tooShort - InFlight({"record", "finish"},
                             LAMBDA e : e = "bcrypt.ErrHashTooShort")
  /\ (\A c \in Conns : req[c].pc \in {"idle", "done"}) =>
       /\ BagCardinality(hashLatency) = comparisons
       /\ hashError = tooShort
  /\ comparisons <= accepted
  /\ \A c \in Conns :
       /\ req[c].queries <= 1
       /\ (Done(c) /\ req[c].handler = "signin")
            => req[c].resp = <<AloneResponse(req[c])>>

\* Two sign-ins in flight at once, both past the observation and both about
\* to take the error-count branch, with both observations in the histogram.
C11_Witness ==
  \E c, d \in Conns :
    /\ c # d
    /\ req[c].pc = "finish" /\ req[c].cmpErr = "bcrypt.ErrHashTooShort"
    /\ req[d].pc = "finish" /\ req[d].cmpErr = "bcrypt.ErrHashTooShort"
    /\ BagCardinality(hashLatency) >= 2

====
